---------------------------- MODULE Spec2Model ----------------------------
(***************************************************************************)
(* Model of src/auth_batch.py: GoogleSheetsManager.process_sheets, the     *)
(* backup of the admin sheet with its retry loop, the merge of the form    *)
(* responses into the admin records and the bulk write of the result.      *)
(*                                                                         *)
(* A cell value is a Python str, modelled as a sequence of one-character   *)
(* strings, so that strip(), split('\n'), lower() and '\n'.join() are      *)
(* computed, not assumed.  Column names are atomic strings.  The records   *)
(* get_all_records returns are taken to hold str values only, on which     *)
(* str(value) and the pd.isna test change nothing.                         *)
(***************************************************************************)
EXTENDS Integers, Sequences, FiniteSets, TLC

VARIABLES
    pc,               \* position of the run inside process_sheets
    run,              \* number of the process_sheets run (1, 2, ...)
    response_rows,    \* remote response sheet: data rows below the header
    admin_cols,       \* remote admin sheet: the column names of header row 1
    extra_cols,       \* further admin columns no code path names (count only)
    sheet_rows,       \* remote admin sheet: data rows, sheet row 2 onwards
    response_data,    \* _read_sheets: snapshot of the response records
    admin_data,       \* _read_sheets: snapshot of the admin records
    column_mappings,  \* the column mapping table in force
    retries,          \* get_worksheet_by_id_with_retry: parameter retries
    attempt,          \* get_worksheet_by_id_with_retry: loop variable
    calls,            \* gateway calls and sleeps issued so far, in order
    mm_pc,            \* _merge_multiline_data applied on its own: position
    mm_existing,      \* its argument existing_value
    mm_new,           \* its argument new_values
    mm_result         \* its return value

vars == <<pc, run, response_rows, admin_cols, extra_cols, sheet_rows,
          response_data, admin_data, column_mappings, retries, attempt,
          calls, mm_pc, mm_existing, mm_new, mm_result>>

\* the shape of the state: where the run stands, the loop counter within its
\* range, every logged gateway call named
TypeOK ==
    /\ pc \in {"start", "read", "backup", "retry", "resolved", "exhausted",
               "merge", "done", "failed", "idle"}
    /\ run \in {1, 2}
    /\ extra_cols \in Nat
    /\ retries \in Nat
    /\ attempt \in 0..retries
    /\ \A i \in 1..Len(sheet_rows) : DOMAIN sheet_rows[i] = admin_cols
    /\ \A i \in 1..Len(admin_data) : DOMAIN admin_data[i] = admin_cols
    /\ Len(response_data) \in {0, Len(response_rows)}
    /\ \A i \in 1..Len(calls) :
          calls[i].op \in {"open_by_key", "get_all_records", "copy_to",
                           "get_worksheet_by_id", "sleep", "update_title",
                           "get_all_values", "update"}
    /\ mm_pc \in {"idle", "call", "returned"}

-----------------------------------------------------------------------------
(* Python str operations *)

NL == "\n"
SP == " "

\* characters str.strip() removes
Whitespace == {SP, NL}

Max(a, b) == IF a >= b THEN a ELSE b

RECURSIVE LStrip(_)
LStrip(s) ==
    IF s # <<>> /\ Head(s) \in Whitespace THEN LStrip(Tail(s)) ELSE s

RECURSIVE RStrip(_)
RStrip(s) ==
    IF s # <<>> /\ s[Len(s)] \in Whitespace
    THEN RStrip(SubSeq(s, 1, Len(s) - 1))
    ELSE s

\* str.strip()
Strip(s) == RStrip(LStrip(s))

\* position of the first newline of s, 0 when it has none
FirstNL(s) ==
    IF \E i \in 1..Len(s) : s[i] = NL
    THEN CHOOSE i \in 1..Len(s) : s[i] = NL /\ \A j \in 1..(i - 1) : s[j] # NL
    ELSE 0

\* str.split('\n'): one entry more than there are newlines
RECURSIVE Split(_)
Split(s) ==
    IF FirstNL(s) = 0
    THEN <<s>>
    ELSE <<SubSeq(s, 1, FirstNL(s) - 1)>> \o Split(SubSeq(s, FirstNL(s) + 1, Len(s)))

\* '\n'.join(parts)
RECURSIVE Join(_)
Join(parts) ==
    IF parts = <<>> THEN <<>>
    ELSE IF Len(parts) = 1 THEN parts[1]
    ELSE parts[1] \o <<NL>> \o Join(Tail(parts))

LowerChar(c) ==
    CASE c = "Y" -> "y"
      [] c = "E" -> "e"
      [] c = "S" -> "s"
      [] c = "O" -> "o"
      [] OTHER -> c

\* str.lower()
Lower(s) == [i \in 1..Len(s) |-> LowerChar(s[i])]

Digit(d) == <<"0", "1", "2", "3", "4", "5", "6", "7", "8", "9">>[d + 1]

\* str(n) of a non-negative int
RECURSIVE IntToStr(_)
IntToStr(n) ==
    IF n < 10 THEN <<Digit(n)>> ELSE IntToStr(n \div 10) \o <<Digit(n % 10)>>

NonEmpty(s) == s # <<>>

-----------------------------------------------------------------------------
(* _merge_multiline_data *)

\* the loop "for value in all_values: if value not in seen: ..."
RECURSIVE Unique(_, _)
Unique(all_values, seen) ==
    IF all_values = <<>> THEN <<>>
    ELSE IF Head(all_values) \in seen
         THEN Unique(Tail(all_values), seen)
         ELSE <<Head(all_values)>> \o Unique(Tail(all_values), seen \cup {Head(all_values)})

\* [line.strip() for line in str(existing_value).split('\n') if line.strip()]
ExistingLines(existing_value) ==
    IF existing_value # <<>> /\ Strip(existing_value) # <<>>
    THEN SelectSeq([i \in 1..Len(Split(existing_value)) |-> Strip(Split(existing_value)[i])],
                NonEmpty)
    ELSE <<>>

\* the stripped new values that are not empty
NewEntries(new_values) ==
    SelectSeq([i \in 1..Len(new_values) |-> Strip(new_values[i])], NonEmpty)

\* the new values replacing the cell instead of joining it
MergeMultilineOverwrite(existing_value, new_values) ==
    Join(Unique(NewEntries(new_values), {}))

MergeMultilineData(existing_value, new_values) ==
    Join(Unique(ExistingLines(existing_value) \o NewEntries(new_values), {}))


-----------------------------------------------------------------------------
(* Column names.  The module writes them in ASCII:                         *)
(*   dong = 동, hosu = 호수, bigo = 비고, type = 타입,                     *)
(*   geomtoja1 = 검토자1, geomtoja2 = 검토자2,                             *)
(*   kakao_uuid = 카카오톡 닉네임+uuid, ireum = 이름,                      *)
(*   daepyo_yeobu = 세대 대표자 여부, daepyoja_ireum = 대표자 이름,        *)
(*   wiimjang = 위임장 업로드, gyeyakseo = 계약서 업로드,                  *)
(*   bisang = 비상연락망, cafe_id = 네이버카페 ID, jagyeok = 자격구분,     *)
(*   dongui = 개인정보 수집·이용 동의.                                     *)
(* The one-symbol strings "<ye>", "<dae>", "<pyo>", "<dong>", "<ho>",      *)
(* "<su>" stand for the characters 예, 대, 표, 동, 호, 수 inside a cell.   *)

\* _get_protected_columns
ProtectedColumns ==
    {"geomtoja1", "geomtoja2", "dong", "hosu", "type", "bigo", "kakao_uuid"}

\* _get_column_mappings: (response column, admin column), in dict order
ColumnMappings ==
    << <<"wiimjang", "wiimjang">>,
       <<"gyeyakseo", "gyeyakseo">>,
       <<"ireum", "ireum">>,
       <<"bisang", "bisang">>,
       <<"cafe_id", "cafe_id">>,
       <<"jagyeok", "jagyeok">>,
       <<"daepyo_yeobu", "daepyo_yeobu">>,
       <<"dongui", "dongui">> >>

\* the values _extract_representatives accepts, after strip() and lower()
RepresentativeTokens ==
    { <<"<ye>">>, <<"y", "e", "s">>, <<"y">>, <<"o">>, <<"<dae>", "<pyo>">>,
      <<"t", "r", "u", "e">>, <<"1">> }

\* record.get(col, '')
Get(record, col) == IF col \in DOMAIN record THEN record[col] ELSE <<>>

\* list(df.columns) of pd.DataFrame(data): no columns for an empty list
Columns(data) == IF data = <<>> THEN {} ELSE DOMAIN data[1]

-----------------------------------------------------------------------------
(* _create_key *)

\* df["동"] and df["호수"] raise KeyError when the column is missing
KeyColumnsPresent(data) == {"dong", "hosu"} \subseteq Columns(data)

\* str(동).strip() + "-" + str(호수).strip()
CreateKey(record) == Strip(record["dong"]) \o <<"-">> \o Strip(record["hosu"])

-----------------------------------------------------------------------------
(* merge_into_admin_sheet: one admin row *)

\* response_grouped.get_group(key): the positions (df index + 1) of the
\* response records with this key, in sheet order
GroupIndex(responses, key) ==
    SelectSeq([i \in 1..Len(responses) |-> i],
              LAMBDA i : CreateKey(responses[i]) = key)

\* the "continue" for a key without responses left out
HasGroupAlways(responses, key) == TRUE

\* key in response_grouped.groups
HasGroup(responses, key) == GroupIndex(responses, key) # <<>>

\* responses_df_for_key.to_dict('records')
ResponsesForKey(responses, key) ==
    [k \in 1..Len(GroupIndex(responses, key)) |-> responses[GroupIndex(responses, key)[k]]]

\* _generate_uuid_from_df: df index + 2, df index = position - 1
GenerateUuid(group_index) ==
    Join([k \in 1..Len(group_index) |-> IntToStr((group_index[k] - 1) + 2)])

\* the flag compared without lower()
IsRepresentativeCaseSensitive(response) ==
    Strip(Get(response, "daepyo_yeobu")) \in RepresentativeTokens

\* is_representative.lower() in [...]
IsRepresentative(response) ==
    Lower(Strip(Get(response, "daepyo_yeobu"))) \in RepresentativeTokens

\* _extract_representatives
ExtractRepresentatives(responses_for_key) ==
    Join(SelectSeq(
        [k \in 1..Len(SelectSeq(responses_for_key, IsRepresentative)) |->
            Strip(Get(SelectSeq(responses_for_key, IsRepresentative)[k], "ireum"))],
        NonEmpty))

\* new_values of one mapping: stripped, empty ones removed
CollectNewValues(responses_for_key, response_col) ==
    SelectSeq([k \in 1..Len(responses_for_key) |->
                  Strip(Get(responses_for_key[k], response_col))],
              NonEmpty)

\* the protected-column test left out
SkipsNothing(admin_col) == FALSE

\* "if admin_col in protected_cols: continue"
SkipsMapping(admin_col) == admin_col \in ProtectedColumns

\* one iteration of "for response_col, admin_col in column_mappings.items()"
ApplyMapping(row, mapping, responses_for_key, response_columns) ==
    IF SkipsMapping(mapping[2])
    THEN row
    ELSE IF mapping[1] \in response_columns /\ mapping[2] \in DOMAIN row
            /\ CollectNewValues(responses_for_key, mapping[1]) # <<>>
         THEN [row EXCEPT ![mapping[2]] =
                  MergeMultilineData(row[mapping[2]],
                                     CollectNewValues(responses_for_key, mapping[1]))]
         ELSE row

RECURSIVE ApplyMappings(_, _, _, _)
ApplyMappings(row, mappings, responses_for_key, response_columns) ==
    IF mappings = <<>> THEN row
    ELSE ApplyMappings(ApplyMapping(row, Head(mappings), responses_for_key, response_columns),
                       Tail(mappings), responses_for_key, response_columns)

\* "if 'uuid' in admin_df.columns: admin_df.at[i, 'uuid'] = ..."
SetUuid(row, group_index) ==
    IF "uuid" \in DOMAIN row
    THEN [row EXCEPT !["uuid"] = GenerateUuid(group_index)]
    ELSE row

\* "if '대표자 이름' in admin_df.columns: admin_df.at[i, '대표자 이름'] = ..."
SetRepresentatives(row, responses_for_key) ==
    IF "daepyoja_ireum" \in DOMAIN row
    THEN [row EXCEPT !["daepyoja_ireum"] = ExtractRepresentatives(responses_for_key)]
    ELSE row

\* body of "for i, admin_row in admin_df.iterrows()" (the KEY column left out)
MergeRow(row, responses, mappings) ==
    IF ~HasGroup(responses, CreateKey(row))
    THEN row
    ELSE ApplyMappings(
            SetRepresentatives(
                SetUuid(row, GroupIndex(responses, CreateKey(row))),
                ResponsesForKey(responses, CreateKey(row))),
            mappings,
            ResponsesForKey(responses, CreateKey(row)),
            Columns(responses))

\* the admin DataFrame after the loop, KEY dropped: update_values
MergedRows(admin, responses, mappings) ==
    [i \in 1..Len(admin) |-> MergeRow(admin[i], responses, mappings)]

-----------------------------------------------------------------------------
(* _update_admin_sheet *)

\* '동' in str(cell), for a header cell (a column name) and for a data cell
NameHasDong(name) == name \in {"dong", "dongui"}
CellHasDong(cell) == \E i \in 1..Len(cell) : cell[i] = "<dong>"

\* '호수' in str(cell)
NameHasHosu(name) == name = "hosu"
CellHasHosu(cell) == \E i \in 1..(Len(cell) - 1) : cell[i] = "<ho>" /\ cell[i + 1] = "<su>"

\* both labels looked for inside one and the same cell
HeaderRowMatchesOneCell(cols) == \E c \in cols : NameHasDong(c) /\ NameHasHosu(c)

\* any('동' in str(cell) and '호수' in str(all_data[i]) for cell in row), for
\* sheet row 1 (the header) and for the data row at position k
HeaderRowMatches(cols) ==
    (\E c \in cols : NameHasDong(c)) /\ (\E c \in cols : NameHasHosu(c))
DataRowMatches(row) ==
    (\E c \in DOMAIN row : CellHasDong(row[c])) /\ (\E c \in DOMAIN row : CellHasHosu(row[c]))

\* header_row_idx, 1-based; the fallback when no row matches
FallbackHeaderRow == 3
HeaderRowIdx(cols, rows) ==
    IF HeaderRowMatches(cols) THEN 1
    ELSE IF \E k \in 1..Len(rows) : DataRowMatches(rows[k])
         THEN 1 + (CHOOSE k \in 1..Len(rows) :
                      DataRowMatches(rows[k]) /\ \A j \in 1..(k - 1) : ~DataRowMatches(rows[j]))
         ELSE FallbackHeaderRow

\* ord("A")
OrdA == 65
\* ord("Z"): the last character that names a column on its own
OrdZ == 90

\* ord(end_col) of end_col = chr(ord(start_col) + len(update_df.columns) - 1)
EndColCode(num_cols) == OrdA + num_cols - 1

\* range_name = f"{start_col}{start_row}:{end_col}{end_row}", kept as its parts
RangeName(header_row_idx, num_rows, num_cols) ==
    [start_col |-> OrdA,
     start_row |-> header_row_idx + 1,
     end_col   |-> EndColCode(num_cols),
     end_row   |-> (header_row_idx + 1) + num_rows - 1]

\* the columns a range spans in A1 notation; 0 when end_col is no column letter
RangeCols(range) ==
    IF range.end_col \in OrdA..OrdZ THEN range.end_col - range.start_col + 1 ELSE 0
RangeRows(range) == range.end_row - range.start_row + 1

\* admin_ws.update(range_name, values): the sheet takes the block when the range
\* parses and holds the values
UpdateAccepted(range, num_rows, num_cols) ==
    RangeCols(range) >= num_cols /\ RangeRows(range) >= num_rows

\* the data rows (sheet row 2 onwards) after the block is written at start_row
WriteBlock(rows, start_row, values, cols) ==
    [j \in 1..Max(Len(rows), (start_row - 2) + Len(values)) |->
        IF j > start_row - 2 /\ j <= (start_row - 2) + Len(values)
        THEN values[j - (start_row - 2)]
        ELSE IF j <= Len(rows) THEN rows[j] ELSE [c \in cols |-> <<>>]]

-----------------------------------------------------------------------------
(* Bounds and input sets *)

MaxAdminRows == 2
MaxResponses == 2
MaxExtraCols == 20
MaxRetries == 5
MaxLen == 3
MaxNew == 2
MaxNewLen == 3

\* get_worksheet_by_id_with_retry: the default of retries
Retries == 5

\* SeqsUpTo(S, 0, n): the sequences over S of length 0..n
SeqsUpTo(S, lo, hi) == UNION {[1..n -> S] : n \in lo..hi}

Restrict(record, cols) == [c \in DOMAIN record \cap cols |-> record[c]]

AdminSchemaFull ==
    {"dong", "hosu", "bigo", "ireum", "daepyo_yeobu", "uuid", "daepyoja_ireum"}
\* an admin sheet without the uuid, representative and flag columns
AdminSchemaPlain == {"dong", "hosu", "bigo", "ireum"}
\* an admin sheet whose header lacks the 호수 column
AdminSchemaNoHosu == {"dong", "bigo", "ireum"}

AdminRecord(dong, bigo, ireum, yeobu, uuid, rep) ==
    [dong |-> dong, hosu |-> <<"7">>, bigo |-> bigo, ireum |-> ireum,
     daepyo_yeobu |-> yeobu, uuid |-> uuid, daepyoja_ireum |-> rep]

ResponseRecord(dong, ireum, yeobu) ==
    [dong |-> dong, hosu |-> <<"7", SP>>, ireum |-> ireum, daepyo_yeobu |-> yeobu]

\* admin rows: filled cells with an unstripped key and a multi-line name cell
\* with an unstripped line; a one-line name beside blank cells; a unit no
\* response names
AdminRecords ==
    { AdminRecord(<<SP, "1">>, <<SP, "n">>, <<SP, "a", NL, "b">>, <<"y">>, <<"9">>, <<"b">>),
      AdminRecord(<<"2">>, <<"n">>, <<"b">>, <<>>, <<>>, <<>>),
      AdminRecord(<<"3">>, <<"n">>, <<"b", SP>>, <<"n">>, <<"9">>, <<"b">>) }

\* responses: a representative; an unstripped upper-case flag and name; a
\* multi-line name; a representative without a name; a non-representative
ResponseRecords ==
    { ResponseRecord(<<"1">>, <<"a">>, <<"y">>),
      ResponseRecord(<<"1", SP>>, <<SP, "b">>, <<"Y", SP>>),
      ResponseRecord(<<"2">>, <<"a", NL, "b">>, <<"n">>),
      ResponseRecord(<<"2">>, <<>>, <<"<ye>">>),
      ResponseRecord(<<"1">>, <<"b">>, <<>>) }

\* a mapping table with entries that point at protected columns
MisconfiguredMappings ==
    ColumnMappings \o << <<"ireum", "bigo">>, <<"daepyo_yeobu", "dong">> >>

MappingTables == {ColumnMappings, MisconfiguredMappings}

-----------------------------------------------------------------------------
(* process_sheets, step by step.  Every gateway call either returns or     *)
(* raises; an exception that no handler swallows ends the run in "failed". *)

Call(op, ok) == [op |-> op, ok |-> ok]

mm_vars == <<mm_pc, mm_existing, mm_new, mm_result>>
remote_vars == <<response_rows, admin_cols, extra_cols, sheet_rows>>
retry_vars == <<retries, attempt>>
snapshot_vars == <<response_data, admin_data>>

\* "test_sheet = self.client.open_by_key(...)" with its except: raise
OpenByKey ==
    /\ pc = "start"
    /\ \E ok \in BOOLEAN :
        /\ calls' = Append(calls, Call("open_by_key", ok))
        /\ pc' = IF ok THEN "read" ELSE "failed"
    /\ UNCHANGED <<run, remote_vars, snapshot_vars, column_mappings, retry_vars, mm_vars>>

\* _read_sheets: get_all_records of both sheets, header row 1 as the keys
ReadSheets ==
    /\ pc = "read"
    /\ \E ok \in BOOLEAN :
        /\ calls' = Append(calls, Call("get_all_records", ok))
        /\ IF ok
           THEN /\ response_data' = response_rows
                /\ admin_data' = sheet_rows
                /\ pc' = "backup"
           ELSE /\ UNCHANGED snapshot_vars
                /\ pc' = "failed"
    /\ UNCHANGED <<run, remote_vars, column_mappings, retry_vars, mm_vars>>

\* a backup whose failure is logged and swallowed
BackupErrorSwallowed == "merge"

\* backup_admin_sheet: "except Exception as e: ... raise"
BackupErrorGoesTo == "failed"

\* backup_admin_sheet up to the call of get_worksheet_by_id_with_retry
CopyTo ==
    /\ pc = "backup"
    /\ \E ok \in BOOLEAN :
        /\ calls' = Append(calls, Call("copy_to", ok))
        /\ pc' = IF ok THEN "retry" ELSE BackupErrorGoesTo
    /\ attempt' = 0
    /\ retries' = Retries
    /\ UNCHANGED <<run, remote_vars, snapshot_vars, column_mappings, mm_vars>>

\* "if attempt < retries - 1: time.sleep(delay)", reached from the except branch
SleepsAfter(outcome, att, n) == outcome = "raise" /\ att < n - 1

\* one iteration of "for attempt in range(retries)": the lookup returns the
\* sheet, returns nothing, or raises
Lookup ==
    /\ pc = "retry"
    /\ attempt < retries
    /\ \E outcome \in {"sheet", "none", "raise"} :
        /\ calls' = Append(calls, [op |-> "get_worksheet_by_id", result |-> outcome])
                    \o (IF SleepsAfter(outcome, attempt, retries)
                        THEN <<[op |-> "sleep"]>> ELSE <<>>)
        /\ IF outcome = "sheet"
           THEN pc' = "resolved" /\ attempt' = attempt
           ELSE pc' = "retry" /\ attempt' = attempt + 1
    /\ UNCHANGED <<run, remote_vars, snapshot_vars, column_mappings, retries, mm_vars>>

\* the loop ran out: "raise RuntimeError(...)"
RetryExhausted ==
    /\ pc = "retry"
    /\ attempt >= retries
    /\ pc' = "exhausted"
    /\ UNCHANGED <<run, remote_vars, snapshot_vars, column_mappings, retry_vars, calls, mm_vars>>

\* backup_admin_sheet: the RuntimeError reaches its except block
BackupRaise ==
    /\ pc = "exhausted"
    /\ pc' = BackupErrorGoesTo
    /\ UNCHANGED <<run, remote_vars, snapshot_vars, column_mappings, retry_vars, calls, mm_vars>>

\* backup_admin_sheet: copied_ws.update_title(backup_name)
Rename ==
    /\ pc = "resolved"
    /\ \E ok \in BOOLEAN :
        /\ calls' = Append(calls, Call("update_title", ok))
        /\ pc' = IF ok THEN "merge" ELSE BackupErrorGoesTo
    /\ UNCHANGED <<run, remote_vars, snapshot_vars, column_mappings, retry_vars, mm_vars>>

\* the emptiness test made on the wrong table
ShortCircuitsOnAdmin(responses) == admin_data = <<>>

\* "if response_df.empty: ... return"
ShortCircuits(responses) == responses = <<>>

\* len(update_df.columns)
NumCols(values) == Cardinality(Columns(values)) + extra_cols

\* _update_admin_sheet(admin_df, admin_ws); fault names the gateway call that raises
UpdateAdminSheet(values, fault) ==
    IF values = <<>>
    THEN pc' = "done" /\ UNCHANGED <<calls, sheet_rows>>
    ELSE IF fault = "get_all_values"
    THEN /\ calls' = Append(calls, Call("get_all_values", FALSE))
         /\ pc' = "failed"
         /\ UNCHANGED sheet_rows
    ELSE LET range == RangeName(HeaderRowIdx(admin_cols, sheet_rows), Len(values), NumCols(values))
             ok == fault # "update" /\ UpdateAccepted(range, Len(values), NumCols(values))
         IN /\ calls' = calls \o << Call("get_all_values", TRUE),
                                    [op |-> "update", range |-> range, values |-> values,
                                     num_cols |-> NumCols(values), ok |-> ok] >>
            /\ sheet_rows' = IF ok THEN WriteBlock(sheet_rows, range.start_row, values, admin_cols)
                             ELSE sheet_rows
            /\ pc' = IF ok THEN "done" ELSE "failed"

\* merge_into_admin_sheet, with the _update_admin_sheet call that ends it
Merge ==
    /\ pc = "merge"
    /\ IF ShortCircuits(response_data)
       THEN pc' = "done" /\ UNCHANGED <<calls, sheet_rows>>
       ELSE IF ~(KeyColumnsPresent(response_data) /\ KeyColumnsPresent(admin_data))
       THEN pc' = "failed" /\ UNCHANGED <<calls, sheet_rows>>
       ELSE \E fault \in {"none", "get_all_values", "update"} :
               UpdateAdminSheet(MergedRows(admin_data, response_data, column_mappings), fault)
    /\ UNCHANGED <<run, response_rows, admin_cols, extra_cols, snapshot_vars,
                   column_mappings, retry_vars, mm_vars>>

\* the second run of process_sheets up to the merge, every gateway call
\* returning: both sheets are read afresh and the admin sheet is backed up
RunAgain ==
    /\ pc = "done"
    /\ run = 1
    /\ run' = run + 1
    /\ response_data' = response_rows
    /\ admin_data' = sheet_rows
    /\ calls' = calls \o << Call("open_by_key", TRUE), Call("get_all_records", TRUE),
                            Call("copy_to", TRUE),
                            [op |-> "get_worksheet_by_id", result |-> "sheet"],
                            Call("update_title", TRUE) >>
    /\ pc' = "merge"
    /\ UNCHANGED <<remote_vars, column_mappings, retry_vars, mm_vars>>

\* _merge_multiline_data(existing_value, new_values) called on its own
MergeMultiline ==
    /\ mm_pc = "call"
    /\ mm_result' = MergeMultilineData(mm_existing, mm_new)
    /\ mm_pc' = "returned"
    /\ UNCHANGED <<pc, run, remote_vars, snapshot_vars, column_mappings, retry_vars,
                   calls, mm_existing, mm_new>>

-----------------------------------------------------------------------------
(* Specifications *)

Chars == {"a", "b", SP, NL}
NewChars == {"a", "b", NL}

MmIdle == mm_pc = "idle" /\ mm_existing = <<>> /\ mm_new = <<>> /\ mm_result = <<>>

Table(rows, cols) == [i \in 1..Len(rows) |-> Restrict(rows[i], cols)]

\* the admin sheets and response sheets of the runs of Spec
RunAdminTables ==
    { <<AdminRecord(<<"1">>, <<"n">>, <<>>, <<>>, <<>>, <<>>)>>,
      <<AdminRecord(<<SP, "1">>, <<SP, "n">>, <<"a">>, <<"y">>, <<"9">>, <<"b">>),
        AdminRecord(<<"3">>, <<"n">>, <<"b", SP>>, <<"n">>, <<"9">>, <<"b">>)>>,
      \* a data row whose cells hold the characters 동 and 호수
      <<AdminRecord(<<"1">>, <<"n">>, <<>>, <<>>, <<>>, <<>>),
        AdminRecord(<<"2">>, <<"<dong>">>, <<"<ho>", "<su>">>, <<>>, <<>>, <<>>)>> }
RunResponseTables ==
    { <<>>,
      <<ResponseRecord(<<"1">>, <<"a">>, <<"y">>)>>,
      <<ResponseRecord(<<"2">>, <<"a", NL, "b">>, <<"n">>),
        ResponseRecord(<<"1", SP>>, <<SP, "b">>, <<"Y", SP>>)>> }

\* one run of process_sheets
Init ==
    /\ pc = "start"
    /\ run = 1
    /\ response_rows \in RunResponseTables
    /\ admin_cols \in {AdminSchemaFull, AdminSchemaNoHosu}
    /\ extra_cols \in {0, MaxExtraCols}
    /\ \E t \in RunAdminTables : sheet_rows = Table(t, admin_cols)
    /\ response_data = <<>>
    /\ admin_data = <<>>
    /\ column_mappings = ColumnMappings
    /\ retries = Retries
    /\ attempt = 0
    /\ calls = <<>>
    /\ MmIdle

Next ==
    \/ OpenByKey
    \/ ReadSheets
    \/ CopyTo
    \/ Lookup
    \/ RetryExhausted
    \/ BackupRaise
    \/ Rename
    \/ Merge

Spec == Init /\ [][Next]_vars

\* runs of the merge over many tables: the state after a read and a backup
\* that succeeded, then the merge, then the same again on the written sheet
InitMerge ==
    /\ pc = "merge"
    /\ run = 1
    /\ response_rows \in SeqsUpTo(ResponseRecords, 0, MaxResponses)
    /\ admin_cols \in {AdminSchemaFull, AdminSchemaPlain}
    /\ extra_cols = 0
    /\ \E t \in SeqsUpTo(AdminRecords, 1, MaxAdminRows) : sheet_rows = Table(t, admin_cols)
    /\ response_data = response_rows
    /\ admin_data = sheet_rows
    /\ column_mappings \in (IF admin_cols = AdminSchemaFull THEN MappingTables ELSE {ColumnMappings})
    /\ retries = Retries
    /\ attempt = 0
    /\ calls = << Call("open_by_key", TRUE), Call("get_all_records", TRUE),
                  Call("copy_to", TRUE),
                  [op |-> "get_worksheet_by_id", result |-> "sheet"],
                  Call("update_title", TRUE) >>
    /\ MmIdle

NextMerge == Merge \/ RunAgain

SpecMerge == InitMerge /\ [][NextMerge]_vars

\* get_worksheet_by_id_with_retry called with any retries
InitRetry ==
    /\ pc = "retry"
    /\ run = 1
    /\ response_rows = <<>>
    /\ admin_cols = AdminSchemaFull
    /\ extra_cols = 0
    /\ sheet_rows = <<>>
    /\ response_data = <<>>
    /\ admin_data = <<>>
    /\ column_mappings = ColumnMappings
    /\ retries \in 0..MaxRetries
    /\ attempt = 0
    /\ calls = <<>>
    /\ MmIdle

NextRetry == Lookup \/ RetryExhausted

SpecRetry == InitRetry /\ [][NextRetry]_vars

\* _merge_multiline_data on any short strings
InitMultiline ==
    /\ pc = "idle"
    /\ run = 1
    /\ response_rows = <<>>
    /\ admin_cols = AdminSchemaFull
    /\ extra_cols = 0
    /\ sheet_rows = <<>>
    /\ response_data = <<>>
    /\ admin_data = <<>>
    /\ column_mappings = ColumnMappings
    /\ retries = Retries
    /\ attempt = 0
    /\ calls = <<>>
    /\ mm_pc = "call"
    /\ mm_existing \in SeqsUpTo(Chars, 0, MaxLen)
    /\ mm_new \in SeqsUpTo(SeqsUpTo(NewChars, 0, MaxNewLen), 0, MaxNew)
    /\ mm_result = <<>>

NextMultiline == MergeMultiline

SpecMultiline == InitMultiline /\ [][NextMultiline]_vars

-----------------------------------------------------------------------------
(* Properties *)

IsUpdate(c) == c.op = "update"
IsLookup(c) == c.op = "get_worksheet_by_id"
FailedLookup(c) == IsLookup(c) /\ c.result # "sheet"
Succeeded(c, op) == c.op = op /\ c.ok

UpdateIndexes == {i \in 1..Len(calls) : IsUpdate(calls[i])}

\* the backup finished before position i of the call log: the copy was made,
\* then the copied sheet was resolved by id, then it was renamed
BackupCompletedBefore(i) ==
    \E a, b, c \in 1..(i - 1) :
        /\ a < b /\ b < c
        /\ Succeeded(calls[a], "copy_to")
        /\ IsLookup(calls[b]) /\ calls[b].result = "sheet"
        /\ Succeeded(calls[c], "update_title")

\* a step of the backup raised, or the retry budget was used up
BackupFailed ==
    \/ \E i \in 1..Len(calls) : calls[i].op \in {"copy_to", "update_title"} /\ ~calls[i].ok
    \/ Cardinality({i \in 1..Len(calls) : FailedLookup(calls[i])}) >= Retries

\* C1: an update of the admin sheet is issued only after the backup completed
\* (copy made, copied sheet resolved by id, renamed); when the copied sheet is
\* not resolved within the 5 attempts, or another backup step fails, the run
\* ends in a fatal error, no update is issued and the admin sheet is as read.
C1_BackupBeforeWrite ==
    /\ \A i \in UpdateIndexes : BackupCompletedBefore(i)
    /\ BackupFailed =>
          /\ pc \in {"retry", "exhausted", "failed"}
          /\ UpdateIndexes = {}
          /\ sheet_rows = admin_data
    /\ (BackupFailed /\ ~ENABLED Next) => pc = "failed"

\* a run that wrote after a backup whose lookup had first failed
C1_Witness ==
    /\ pc = "done"
    /\ \E i \in UpdateIndexes : calls[i].ok
    /\ \E i \in 1..Len(calls) : FailedLookup(calls[i])

\* the merge of this run has produced its block and handed it to the gateway
MergeProduced ==
    /\ pc \in {"done", "failed"}
    /\ calls # <<>>
    /\ IsUpdate(calls[Len(calls)])

\* the rows merge_into_admin_sheet produced (the values of its update call)
Output == calls[Len(calls)].values

\* trim(동) + "-" + trim(호수)
UnitKey(record) == Strip(record.dong) \o <<"-">> \o Strip(record.hosu)

\* the response records of the unit of admin row i, in sheet order
Matching(i) ==
    SelectSeq(response_data, LAMBDA r : UnitKey(r) = UnitKey(admin_data[i]))

ProtectedNames ==
    {"geomtoja1", "geomtoja2", "dong", "hosu", "type", "bigo", "kakao_uuid"}

\* C2: every cell of a protected column comes out of the merge as it was read,
\* whatever the mapping table holds.
C2_ProtectedUnchanged ==
    MergeProduced =>
        /\ Len(Output) = Len(admin_data)
        /\ \A i \in 1..Len(admin_data) :
              \A c \in ProtectedNames \cap DOMAIN admin_data[i] :
                  /\ Output[i][c] = admin_data[i][c]
                  /\ pc = "done" => sheet_rows[i][c] = admin_data[i][c]

\* a written row with responses, a filled protected cell and a mapping table
\* with entries that point at protected columns
C2_Witness ==
    /\ MergeProduced /\ pc = "done"
    /\ \E m \in 1..Len(column_mappings) : column_mappings[m][2] \in ProtectedNames
    /\ \E i \in 1..Len(admin_data) :
          /\ admin_data[i].bigo # <<>>
          /\ \E k \in 1..Len(Matching(i)) : Strip(Matching(i)[k].ireum) # <<>>

\* C3: an admin row whose key is the key of no response record comes out
\* identical in every column, and the rows keep their count and order.
C3_UnmatchedUnchanged ==
    MergeProduced =>
        /\ Len(Output) = Len(admin_data)
        /\ \A i \in 1..Len(admin_data) :
              /\ Output[i].dong = admin_data[i].dong
              /\ Output[i].hosu = admin_data[i].hosu
              /\ Matching(i) = <<>> =>
                    /\ Output[i] = admin_data[i]
                    /\ pc = "done" => sheet_rows[i] = admin_data[i]

\* two rows written, the first with responses, the second without and with
\* filled uuid and representative cells
C3_Witness ==
    /\ MergeProduced /\ pc = "done"
    /\ Len(admin_data) >= 2
    /\ Matching(1) # <<>>
    /\ Matching(2) = <<>>
    /\ "uuid" \in DOMAIN admin_data[2]
    /\ admin_data[2].uuid # <<>>
    /\ admin_data[2].daepyoja_ireum # <<>>

\* the merge of this run was entered: the backup of this run completed
MergeEntered ==
    /\ pc \in {"done", "failed"}
    /\ calls # <<>>
    /\ \E i \in 1..Len(calls) : Succeeded(calls[i], "update_title")

\* C4: with no response records the merge returns without an error, issues no
\* update, and the admin sheet stays as it was read.
C4_EmptyResponsesNoOp ==
    (MergeEntered /\ response_data = <<>>) =>
        /\ pc = "done"
        /\ UpdateIndexes = {}
        /\ ~\E i \in 1..Len(calls) : calls[i].op = "get_all_values"
        /\ sheet_rows = admin_data

\* a finished run over an empty response sheet and a filled admin sheet
C4_Witness ==
    /\ MergeEntered /\ response_data = <<>>
    /\ pc = "done"
    /\ Len(admin_data) = 2
    /\ \E i \in 1..Len(calls) : FailedLookup(calls[i])

\* C5: a second run over the same responses, started from the admin sheet the
\* first run wrote, leaves every cell as the first run wrote it.
C5_RerunIdempotent ==
    (run = 2 /\ pc = "done") => sheet_rows = admin_data

\* the stripped, non-blank lines of a cell
Lines(value) == {Strip(Split(value)[k]) : k \in 1..Len(Split(value))} \ {<<>>}

\* the admin columns the mapping table in force may write
MappedTargets ==
    {column_mappings[m][2] : m \in 1..Len(column_mappings)} \ ProtectedNames

\* the columns the merge sets from the responses instead of joining
OverwrittenColumns == {"uuid", "daepyoja_ireum"}

Changed(i, c) == Output[i][c] # admin_data[i][c]

\* the responses of row i hold a non-empty value for a column mapped to c
Supplies(i, c) ==
    \E m \in 1..Len(column_mappings) :
        /\ column_mappings[m][2] = c
        /\ \E k \in 1..Len(Matching(i)) :
              /\ column_mappings[m][1] \in DOMAIN Matching(i)[k]
              /\ Strip(Matching(i)[k][column_mappings[m][1]]) # <<>>

\* C6 as stated: only cells of mapped, unprotected columns change, each keeps
\* every line it had, and a cell the responses supply nothing for is untouched.
C6_OnlyMappedBySuperset ==
    MergeProduced =>
        \A i \in 1..Len(admin_data) : \A c \in DOMAIN admin_data[i] :
            /\ Changed(i, c) => c \in MappedTargets
            /\ Lines(admin_data[i][c]) \subseteq Lines(Output[i][c])
            /\ ~Supplies(i, c) => ~Changed(i, c)

\* C6 (amended): only cells of rows with responses change, in the mapped
\* unprotected columns and in the uuid and representative columns; a cell
\* outside those two columns keeps every line it had, and is untouched when
\* the responses supply nothing for it.
C6_SupersetExceptOverwritten ==
    MergeProduced =>
        \A i \in 1..Len(admin_data) : \A c \in DOMAIN admin_data[i] :
            /\ Changed(i, c) =>
                  /\ Matching(i) # <<>>
                  /\ c \in MappedTargets \cup OverwrittenColumns
            /\ c \notin OverwrittenColumns =>
                  /\ Lines(admin_data[i][c]) \subseteq Lines(Output[i][c])
                  /\ ~Supplies(i, c) => ~Changed(i, c)

\* a written row whose filled name cell grew and whose representative cell
\* was replaced
C6_Witness ==
    /\ MergeProduced /\ pc = "done"
    /\ \E i \in 1..Len(admin_data) :
          /\ "daepyoja_ireum" \in DOMAIN admin_data[i]
          /\ admin_data[i].ireum # <<>>
          /\ Changed(i, "ireum")
          /\ admin_data[i].daepyoja_ireum # <<>>
          /\ Changed(i, "daepyoja_ireum")

\* the values handed to _merge_multiline_data, stripped, the empty ones dropped
InputValues ==
    Lines(mm_existing) \cup ({Strip(mm_new[k]) : k \in 1..Len(mm_new)} \ {<<>>})

\* C7: the result has no line twice and holds every distinct input value
\* exactly once, as a line.
C7_NoDuplicateLine ==
    mm_pc = "returned" =>
        /\ mm_result # <<>> =>
              \A j, k \in 1..Len(Split(mm_result)) :
                  j # k => Split(mm_result)[j] # Split(mm_result)[k]
        /\ \A v \in InputValues :
              Cardinality({k \in 1..Len(Split(mm_result)) : Split(mm_result)[k] = v}) = 1

ClaimTokens ==
    { <<"<ye>">>, <<"y", "e", "s">>, <<"y">>, <<"o">>, <<"<dae>", "<pyo>">>,
      <<"t", "r", "u", "e">>, <<"1">> }

\* the flag cell, trimmed and in lower case, is one of the tokens
Flagged(response) == Lower(Strip(response.daepyo_yeobu)) \in ClaimTokens

\* the name cells of the flagged responses of row i, in response order
FlaggedNames(i) ==
    [k \in 1..Len(SelectSeq(Matching(i), Flagged)) |->
        SelectSeq(Matching(i), Flagged)[k].ireum]

HasRepresentativeColumn == "daepyoja_ireum" \in Columns(admin_data)

\* C8 as stated: the representative cell is the newline-join of the names of
\* the flagged responses, as the name cells stand.
C8_RepresentativesAsEntered ==
    (MergeProduced /\ HasRepresentativeColumn) =>
        \A i \in 1..Len(admin_data) :
            Matching(i) # <<>> => Output[i].daepyoja_ireum = Join(FlaggedNames(i))

\* C8 (amended): the representative cell is the newline-join of the trimmed
\* names of the flagged responses, a flagged response with a blank name
\* adding nothing.
C8_RepresentativesTrimmed ==
    (MergeProduced /\ HasRepresentativeColumn) =>
        \A i \in 1..Len(admin_data) :
            Matching(i) # <<>> =>
                Output[i].daepyoja_ireum =
                    Join(SelectSeq([k \in 1..Len(FlaggedNames(i)) |-> Strip(FlaggedNames(i)[k])],
                                   NonEmpty))

\* a written row with two flagged responses, one by an upper-case flag
C8_Witness ==
    /\ MergeProduced /\ pc = "done" /\ HasRepresentativeColumn
    /\ \E i \in 1..Len(admin_data) :
          /\ Len(FlaggedNames(i)) = 2
          /\ \E k \in 1..2 : Strip(Matching(i)[k].daepyo_yeobu) \notin ClaimTokens
          /\ Changed(i, "daepyoja_ireum")

\* C9: at most one update is issued, by a finished run over responses exactly
\* one, and its range spans as many rows as there are admin records and as
\* many columns as the admin sheet has.
C9_OneRectangularWrite ==
    /\ Cardinality(UpdateIndexes) <= 1
    /\ (pc = "done" /\ response_data # <<>>) => Cardinality(UpdateIndexes) = 1
    /\ \A i \in UpdateIndexes :
          /\ RangeRows(calls[i].range) = Len(admin_data)
          /\ RangeCols(calls[i].range) = Cardinality(admin_cols) + extra_cols

LookupIndexes == {i \in 1..Len(calls) : IsLookup(calls[i])}

\* C10: at most retries lookups; a delay after every failed lookup that has a
\* successor; the first resolving lookup ends the loop; the loop raises after
\* exactly retries failed lookups; it stops only by returning or raising.
C10_BoundedRetryWithDelay ==
    /\ Cardinality(LookupIndexes) <= retries
    /\ \A i \in LookupIndexes :
          (FailedLookup(calls[i]) /\ \E j \in LookupIndexes : j > i)
              => calls[i + 1].op = "sleep"
    /\ pc = "resolved" =>
          /\ calls[Len(calls)].op = "get_worksheet_by_id"
          /\ \A i \in LookupIndexes : FailedLookup(calls[i]) <=> i < Len(calls)
    /\ pc = "exhausted" =>
          Cardinality({i \in LookupIndexes : FailedLookup(calls[i])}) = retries
    /\ ~ENABLED NextRetry => pc \in {"resolved", "exhausted"}

\* C11: every update is issued with the header found in sheet row 1, never
\* the fallback row 3: the block starts at sheet row 2, and once written the
\* i-th data row of the sheet holds the i-th admin record of the block, the
\* row that record was read from.
C11_WrittenBackInPlace ==
    \A u \in UpdateIndexes :
        /\ calls[u].range.start_row = 2
        /\ calls[u].range.start_row # FallbackHeaderRow + 1
        /\ Len(calls[u].values) = Len(admin_data)
        /\ calls[u].ok =>
              /\ Len(sheet_rows) = Len(admin_data)
              /\ \A i \in 1..Len(admin_data) :
                    /\ sheet_rows[i] = calls[u].values[i]
                    /\ sheet_rows[i].dong = admin_data[i].dong
                    /\ sheet_rows[i].hosu = admin_data[i].hosu

\* a finished write over a sheet whose second data row also holds the
\* characters 동 and 호수, which the scan meets only after row 1
C11_Witness ==
    /\ pc = "done"
    /\ \E u \in UpdateIndexes : calls[u].ok
    /\ Len(admin_data) = 2
    /\ DataRowMatches(admin_data[2])

=============================================================================
